---- MODULE Spec2Model ----
(***************************************************************************)
(* Model of util/tester.py (class Tester): the evaluation runner that      *)
(* iterates a dataset, runs inference, accumulates per-sample errors,      *)
(* optionally writes an HDF5 error log, and writes test predictions.       *)
(*                                                                         *)
(* One behaviour is one top-level call (run, run_visual_validation,        *)
(* run_validation or run_test) on a freshly constructed Tester.            *)
(* Strings whose content matters (mode strings, file names) are tuples of  *)
(* one-character strings, so substring tests and dot stripping are         *)
(* computed, not assumed.                                                  *)
(***************************************************************************)
EXTENDS Integers, Sequences, FiniteSets, TLC

\* ------------------------------------------------------------------ bounds
MaxN == 3
MaxBatch == 2
MaxLimit == 3

\* lines 111 and 199: a progress line every tenth batch
ProgressEvery == 10

\* --------------------------------------------------------------- utilities
Min(a, b) == IF a < b THEN a ELSE b

Range(s) == {s[k] : k \in 1..Len(s)}

\* Python's `sub in s` for strings
Contains(sub, s) ==
    \E k \in 0..(Len(s) - Len(sub)) : SubSeq(s, k + 1, k + Len(sub)) = sub

\* Python's s[:n] (n < 0 counts from the end)
SlicePrefix(s, n) ==
    IF n >= 0 THEN SubSeq(s, 1, Min(n, Len(s)))
    ELSE SubSeq(s, 1, Len(s) + n)

\* re.sub(r'\.', '', f): removes every literal dot
RECURSIVE StripDots(_)
StripDots(f) ==
    IF f = <<>> THEN <<>>
    ELSE IF Head(f) = "." THEN StripDots(Tail(f))
    ELSE <<Head(f)>> \o StripDots(Tail(f))

Digit(k) == <<"0", "1", "2", "3", "4", "5", "6", "7", "8", "9">>[k + 1]

\* ------------------------------------------------------------ mode strings
rand == <<"r", "a", "n", "d">>
fix == <<"f", "i", "x">>
full == <<"f", "u", "l", "l">>

Modes ==
    { rand, fix, full,
      fix \o rand \o <<"o", "m">>,        \* "fixrandom"
      full \o <<"_">> \o rand,            \* "full_rand"
      full \o fix,                        \* "fullfix"
      <<"f", "i">> \o full,               \* "fifull"
      <<"r", "a", "n">>,                  \* "ran"
      <<>> }

\* ------------------------------------------------------------------- state
VARIABLES
    N,                \* self.N = dataloader.dataset.N
    batchSize,        \* self.opt.batchSize
    dataset_key,      \* self.opt.dataset_key
    filenames,        \* dataset: file name of each sample (sample s at s + 1)
    validation_list,  \* dataset.get_validation_indices()
    pc,               \* position of the call in progress
    entry,            \* the top-level method that was called
    mode, limit, write_error_log, log,   \* arguments of the call
    limit_arg,        \* the limit the caller passed, before run resolves it
    indices,          \* [restricted, list]: restricted = FALSE is Python's None
    i,                \* enumerate index of the loop
    counter,          \* run_validation's counter
    all_errors,       \* run_validation's / run_visual_validation's error list
    processed,        \* the batches that went through run_batch / forward
    error_log,        \* the h5py file: state, opens, four arrays
    log_writes,       \* the slices written by _write_error_log_batch
    fetched,          \* number of batches taken from the dataset
    model_calls,      \* number of model.forward calls
    dataset_calls,    \* index-selection calls made on the dataset
    exception,        \* the exception that ended the call, if any
    reports,          \* results handed to print / visualizer
    filepaths,        \* run_test's filepaths
    saved,            \* np.save calls: [sample, out]
    disk,             \* prediction files in results_dir: set of [path, data]
    manifest          \* pred_npy_list.txt: [written, lines]

cfg == <<N, batchSize, dataset_key, filenames, validation_list>>
args == <<entry, mode, limit, limit_arg, write_error_log, log>>
valv == <<indices, i, counter, all_errors, processed, error_log, log_writes>>
obs == <<fetched, model_calls, dataset_calls, exception, reports>>
testv == <<filepaths, saved, disk, manifest>>
vars == <<cfg, pc, args, valv, obs, testv>>

NoIndices == [restricted |-> FALSE, list |-> <<>>]
NoException == [type |-> "None", msg |-> <<>>]
Unset == <<"unset">>

\* --------------------------------------------------------------- the dataset
\* File name of sample s: one digit with a dot before or after it.
Name(d, p) == IF p = 0 THEN <<".", Digit(d)>> ELSE <<Digit(d), ".">>

\* Datasets of n samples with pairwise distinct file names; the stripped
\* names of neighbouring samples may or may not coincide.
DatasetFilenames(n) ==
    { f \in [1..n -> {Name(d, p) : d \in 0..n, p \in 0..1}] :
        \A k \in 1..n :
            \E d \in {k - 1, IF k > 1 THEN k - 2 ELSE 0} : f[k] = Name(d, k % 2) }

\* Fixed validation index lists the dataset may provide.
ValidationLists(n) ==
    { <<>>, [k \in 1..n |-> k - 1], [k \in 1..n |-> n - k] }

\* dataset.get_random_indices(n): n randomly chosen indices of the dataset,
\* pairwise distinct whenever the dataset holds n samples
RandomIndices(n) ==
    { r \in [1..n -> 0..(N - 1)] :
        n <= N => \A a, b \in 1..n : a # b => r[a] # r[b] }

\* number of batches of the sequential dataloader (no drop_last)
NumBatches == (N + batchSize - 1) \div batchSize

\* batch k (0-based) of the sequential dataloader: its samples in order
DataloaderBatch(k) ==
    [j \in 1..(Min((k + 1) * batchSize, N) - k * batchSize) |-> k * batchSize + j - 1]

\* dataset.get_particular(i_val): a batch holding that one sample
GetParticular(i_val) == <<i_val>>

\* MSECalculator.calculate_mse_for_images: one error per image of the batch
Errors(batch) == [j \in 1..Len(batch) |-> <<"mse", batch[j]>>]

\* ---------------------------------------------------------------- Tester
\* __init__
is_validation == dataset_key \in {"validation", "train"}

\* the one dataset of DatasetFilenames whose stripped names all differ:
\* "0.", ".1", "2.", ...
PlainFilenames(n) == { [k \in 1..n |-> Name(k - 1, k % 2)] }

InitBase ==
    /\ N \in 1..MaxN
    /\ batchSize \in 1..MaxBatch
    /\ dataset_key \in {"test", "validation", "train"}
    /\ validation_list \in ValidationLists(N)
    /\ pc = "idle"
    /\ entry = "none"
    /\ mode = <<>>
    /\ limit = -1
    /\ limit_arg = -1
    /\ write_error_log = FALSE
    /\ log = FALSE
    /\ indices = NoIndices
    /\ i = 0
    /\ counter = 0
    /\ all_errors = <<>>
    /\ processed = <<>>
    /\ error_log = [state |-> "none", opens |-> 0, error |-> <<>>, user |-> <<>>,
                    filename |-> <<>>, visualisation |-> <<>>]
    /\ log_writes = <<>>
    /\ fetched = 0
    /\ model_calls = 0
    /\ dataset_calls = <<>>
    /\ exception = NoException
    /\ reports = <<>>
    /\ filepaths = <<>>
    /\ saved = <<>>
    /\ disk = {}
    /\ manifest = [written |-> FALSE, lines |-> <<>>]

\* get_iterator: the generator's i-th batch (lazy; nothing is fetched until asked)
GenHasNext(k) ==
    IF indices.restricted THEN k < Len(indices.list) ELSE k < NumBatches

GenBatch(k) ==
    IF indices.restricted THEN GetParticular(indices.list[k + 1]) ELSE DataloaderBatch(k)

\* mutant: "fix" is tested before "rand"
SelectorBranch_fix_first(m) ==
    IF Contains(fix, m) THEN "fix"
    ELSE IF Contains(rand, m) THEN "rand"
    ELSE IF Contains(full, m) THEN "full"
    ELSE "invalid"

\* mutant: an unrecognized mode falls back to the full traversal
SelectorBranch_default_full(m) ==
    IF Contains(rand, m) THEN "rand"
    ELSE IF Contains(fix, m) THEN "fix"
    ELSE "full"

\* _get_validation_indices: which branch the mode string selects
SelectorBranch(m) ==
    IF Contains(rand, m) THEN "rand"
    ELSE IF Contains(fix, m) THEN "fix"
    ELSE IF Contains(full, m) THEN "full"
    ELSE "invalid"

\* mutant: a limit of 0 is kept
ResolveLimit_keep_zero(l) == IF l >= 0 THEN l ELSE N

\* run: limit = limit if limit > 0 else N
ResolveLimit(l) == IF l > 0 THEN l ELSE N

\* _get_validation_indices(m, l), as a relation: the action part that sets
\* indices, dataset_calls and, for an invalid mode, raises.
GetValidationIndices(m, l, next_pc) ==
    LET b == SelectorBranch(m) IN
    \/ /\ b = "rand"
       /\ \E r \in RandomIndices(l) :
              indices' = [restricted |-> TRUE, list |-> r]
       /\ dataset_calls' = Append(dataset_calls, <<"get_random_indices", l>>)
       /\ pc' = next_pc
       /\ exception' = exception
    \/ /\ b = "fix"
       /\ indices' = [restricted |-> TRUE, list |-> SlicePrefix(validation_list, l)]
       /\ dataset_calls' = Append(dataset_calls, <<"get_validation_indices">>)
       /\ pc' = next_pc
       /\ exception' = exception
    \/ /\ b = "full"
       /\ indices' = NoIndices
       /\ dataset_calls' = dataset_calls
       /\ pc' = next_pc
       /\ exception' = exception
    \/ /\ b = "invalid"
       /\ indices' = indices
       /\ dataset_calls' = dataset_calls
       /\ pc' = "failed"
       /\ exception' = [type |-> "ValueError",
                        msg |-> <<"Invalid mode: ">> \o m]

\* run(model, mode, ..., limit, write_error_log, log), up to the call of
\* run_validation
run ==
    /\ pc = "idle"
    /\ \E m \in Modes, l \in -1..MaxLimit, w \in BOOLEAN, g \in BOOLEAN :
        /\ entry' = "run"
        /\ mode' = m
        /\ limit_arg' = l
        /\ limit' = ResolveLimit(l)
        /\ write_error_log' = w
        /\ log' = g
        /\ GetValidationIndices(m, ResolveLimit(l), "rv_enter")
    /\ UNCHANGED <<cfg, i, counter, all_errors, processed, error_log, log_writes,
                   fetched, model_calls, reports, testv>>

\* run_validation(model, generator, limit, write_error_log) called directly,
\* with generator = get_iterator(dataloader, indices) built by the caller
call_run_validation ==
    /\ pc = "idle"
    /\ \E l \in -1..MaxLimit, w \in BOOLEAN,
          ix \in {NoIndices, [restricted |-> TRUE, list |-> validation_list]} :
        /\ entry' = "run_validation"
        /\ limit_arg' = l
        /\ limit' = l
        /\ write_error_log' = w
        /\ indices' = ix
    /\ pc' = "rv_enter"
    /\ UNCHANGED <<cfg, mode, log, i, counter, all_errors, processed, error_log,
                   log_writes, obs, testv>>

\* _prepare_error_log: h5py.File(..., "w") and four datasets of N rows
PrepareErrorLog ==
    [state |-> "open", opens |-> error_log.opens + 1,
     error |-> [r \in 1..N |-> Unset],
     user |-> [r \in 1..N |-> Unset],
     filename |-> [r \in 1..N |-> Unset],
     visualisation |-> [r \in 1..N |-> Unset]]

\* run_validation, lines 99-106: the assertion, the log, the empty list
rv_enter ==
    /\ pc = "rv_enter"
    /\ IF ~is_validation
       THEN /\ pc' = "failed"
            /\ exception' = [type |-> "AssertionError",
                             msg |-> <<"Must be in validation mode">>]
            /\ UNCHANGED error_log
       ELSE /\ pc' = "rv_loop"
            /\ error_log' = IF write_error_log THEN PrepareErrorLog ELSE error_log
            /\ UNCHANGED exception
    /\ all_errors' = <<>>
    /\ counter' = 0
    /\ i' = 0
    /\ UNCHANGED <<cfg, args, indices, processed, log_writes, fetched, model_calls,
                   dataset_calls, reports, testv>>

\* mutant: the limit is tested against the count before the batch is added
LimitReached_before_counting(c, l) == c - Len(GenBatch(i)) > l

\* mutant: the loop stops when the count reaches the limit
LimitReached_at_limit(c, l) == c >= l

\* line 109: if counter > limit: break
LimitReached(c, l) == c > l

\* mutant: all_errors.append(errors)
Accumulate_append(all, errors) == Append(all, errors)

\* line 115: all_errors += list(errors)
Accumulate(all, errors) == all \o errors

\* mutant: the log is left open
CloseErrorLog_missing(lg) == lg

\* line 120: error_log.close()
CloseErrorLog(lg) == [lg EXCEPT !.state = "closed"]

\* line 80: idx_from, idx_to of batch k
SliceRange(k) == <<k * batchSize, k * batchSize + batchSize>>

\* the rows an h5py slice assignment [idx_from:idx_to] selects in an array of N
\* rows (the slice is clamped to the extent), as 0-based row numbers
SelectedRows(rg) == { r \in 0..(N - 1) : rg[1] <= r /\ r < rg[2] }

\* array[idx_from:idx_to] = values: one value per row, or one value broadcast
Assign(array, rg, values) ==
    [r \in 1..N |->
        IF (r - 1) \in SelectedRows(rg)
        THEN IF Len(values) = 1 THEN values[1] ELSE values[r - rg[1]]
        ELSE array[r]]

\* _write_error_log_batch(error_log, data_i, i, fake, errors): the log after it
WriteErrorLogBatch(batch, k, errors) ==
    LET rg == SliceRange(k) IN
    [error_log EXCEPT
        !.user = Assign(@, rg, [j \in 1..Len(batch) |-> <<"user", batch[j]>>]),
        !.filename = Assign(@, rg, [j \in 1..Len(batch) |-> filenames[batch[j] + 1]]),
        !.error = Assign(@, rg, errors),
        !.visualisation = Assign(@, rg, [j \in 1..Len(batch) |-> <<"vis", batch[j]>>])]

\* the values fit the selection: as many as rows, or a single one (broadcast)
Assignable(rg, n) ==
    Cardinality(SelectedRows(rg)) = n \/ (n = 1 /\ SelectedRows(rg) # {})

\* run_validation's loop, the generator is exhausted
rv_exhausted ==
    /\ pc = "rv_loop"
    /\ ~GenHasNext(i)
    /\ pc' = "rv_end"
    /\ UNCHANGED <<cfg, args, valv, obs, testv>>

\* run_validation's loop, lines 107-110: the batch is fetched and counted, the
\* limit is exceeded, the loop breaks
rv_break ==
    /\ pc = "rv_loop"
    /\ GenHasNext(i)
    /\ LimitReached(counter + Len(GenBatch(i)), limit)
    /\ fetched' = fetched + 1
    /\ counter' = counter + Len(GenBatch(i))
    /\ pc' = "rv_end"
    /\ UNCHANGED <<cfg, args, indices, i, all_errors, processed, error_log,
                   log_writes, model_calls, dataset_calls, exception, reports, testv>>

\* run_validation's loop, lines 107-117: the batch is fetched, counted, run
\* through the model, its errors appended and, if asked, logged
rv_batch ==
    /\ pc = "rv_loop"
    /\ GenHasNext(i)
    /\ LET batch == GenBatch(i)
           errors == Errors(batch)
           rg == SliceRange(i)
       IN
        /\ ~LimitReached(counter + Len(batch), limit)
        /\ fetched' = fetched + 1
        /\ counter' = counter + Len(batch)
        /\ model_calls' = model_calls + 1
        /\ all_errors' = Accumulate(all_errors, errors)
        /\ processed' = Append(processed, batch)
        /\ reports' = IF i % ProgressEvery = ProgressEvery - 1
                      THEN Append(reports, [sink |-> "progress",
                                            samples |-> Len(all_errors), of |-> N])
                      ELSE reports
        /\ IF ~write_error_log
           THEN /\ UNCHANGED <<error_log, log_writes, exception>>
                /\ i' = i + 1
                /\ pc' = pc
           ELSE IF Assignable(rg, Len(batch))
           THEN /\ error_log' = WriteErrorLogBatch(batch, i, errors)
                /\ log_writes' = Append(log_writes,
                       [i |-> i, idx_from |-> rg[1], idx_to |-> rg[2],
                        rows |-> SelectedRows(rg), batch |-> batch,
                        log_state |-> error_log.state])
                /\ UNCHANGED exception
                /\ i' = i + 1
                /\ pc' = pc
           ELSE \* an empty selection: h5py either writes nothing or rejects it,
                \* depending on its version
                \/ /\ log_writes' = Append(log_writes,
                          [i |-> i, idx_from |-> rg[1], idx_to |-> rg[2],
                           rows |-> SelectedRows(rg), batch |-> batch,
                        log_state |-> error_log.state])
                   /\ UNCHANGED <<error_log, exception>>
                   /\ i' = i + 1
                   /\ pc' = pc
                \/ /\ exception' = [type |-> "ValueError",
                                    msg |-> <<"Zero-length selections are not allowed">>]
                   /\ UNCHANGED <<error_log, log_writes, i>>
                   /\ pc' = "failed"
    /\ UNCHANGED <<cfg, args, indices, dataset_calls, testv>>

\* run_validation, lines 119-121: close the log, return all_errors
rv_end ==
    /\ pc = "rv_end"
    /\ error_log' = IF write_error_log THEN CloseErrorLog(error_log)
                    ELSE error_log
    /\ pc' = IF entry = "run" THEN "run_end" ELSE "done"
    /\ UNCHANGED <<cfg, args, indices, i, counter, all_errors, processed, log_writes,
                   obs, testv>>

\* run, lines 172-176: statistics, print_results, log_visualizer
run_end ==
    /\ pc = "run_end"
    /\ reports' = reports
                  \o <<[sink |-> "print_results", samples |-> Len(all_errors), of |-> N]>>
                  \o (IF log THEN <<[sink |-> "log_visualizer", samples |-> Len(all_errors),
                                     of |-> N]>>
                      ELSE <<>>)
    /\ pc' = "done"
    /\ UNCHANGED <<cfg, args, valv, fetched, model_calls, dataset_calls, exception, testv>>

\* run_visual_validation(model, mode, epoch, n_steps, limit), lines 132-137
\* (callers pass a limit >= 0: run_partial_modes passes 4)
run_visual_validation ==
    /\ pc = "idle"
    /\ \E m \in Modes, l \in 0..MaxLimit :
        /\ entry' = "run_visual_validation"
        /\ mode' = m
        /\ limit_arg' = l
        /\ limit' = l
        /\ GetValidationIndices(m, l, "vv_loop")
    /\ UNCHANGED <<cfg, write_error_log, log, i, counter, all_errors, processed,
                   error_log, log_writes, fetched, model_calls, reports, testv>>

\* run_visual_validation's loop, lines 138-143 (result_list is `processed`,
\* error_list is `all_errors`)
vv_batch ==
    /\ pc = "vv_loop"
    /\ GenHasNext(i)
    /\ fetched' = fetched + 1
    /\ model_calls' = model_calls + 1
    /\ processed' = Append(processed, GenBatch(i))
    /\ all_errors' = all_errors \o Errors(GenBatch(i))
    /\ i' = i + 1
    /\ UNCHANGED <<cfg, pc, args, indices, counter, error_log, log_writes,
                   dataset_calls, exception, reports, testv>>

\* run_visual_validation, lines 144-151: result_list[0] of an empty list raises
vv_end ==
    /\ pc = "vv_loop"
    /\ ~GenHasNext(i)
    /\ IF processed = <<>>
       THEN /\ pc' = "failed"
            /\ exception' = [type |-> "IndexError", msg |-> <<"list index out of range">>]
            /\ UNCHANGED reports
       ELSE /\ pc' = "done"
            /\ reports' = Append(reports, [sink |-> "display_current_results",
                                           samples |-> Len(all_errors), of |-> N])
            /\ UNCHANGED exception
    /\ UNCHANGED <<cfg, args, valv, fetched, model_calls, dataset_calls, testv>>

\* ------------------------------------------------------------- run_test
\* ImageProcessor.to_255resized_imagebatch: the normalized output of one
\* sample, as an array of two pixel values
Outputs == { <<0, 255>>, <<128, 128>>, <<-1, 255>>, <<0, 256>> }

ArrMin(a) == CHOOSE x \in Range(a) : \A y \in Range(a) : x <= y
ArrMax(a) == CHOOSE x \in Range(a) : \A y \in Range(a) : x >= y

\* mutant: only the upper end is asserted
InRange_max_only(out) == ArrMax(out) <= 255

\* line 209: assert torch.min(fake_resized[b]) >= 0 and torch.max(fake_resized[b]) <= 255
InRange(out) == ArrMin(out) >= 0 /\ ArrMax(out) <= 255

\* line 210: .astype(np.uint8)
AsUint8(out) == [k \in 1..Len(out) |-> out[k] % 256]

\* line 208: os.path.join(self.results_dir, img_filename[b] + ".npy"), with
\* img_filename[b] the file name without its dots (line 203)
ResultPath(f) == <<"results_dir/">> \o StripDots(f) \o <<".npy">>

\* np.save(path, data): creates or overwrites the file
Save(d, path, data) == { f \in d : f.path # path } \cup { [path |-> path, data |-> data] }

\* lines 207-211 for the samples 1..n of the batch, in order
RECURSIVE SaveBatch(_, _, _, _)
SaveBatch(d, batch, outs, n) ==
    IF n = 0 THEN d
    ELSE Save(SaveBatch(d, batch, outs, n - 1),
              ResultPath(filenames[batch[n] + 1]), AsUint8(outs[n]))

\* the first sample of the batch that fails the assertion (0: none does)
FirstBad(outs) ==
    IF \A b \in 1..Len(outs) : InRange(outs[b]) THEN 0
    ELSE CHOOSE b \in 1..Len(outs) :
            ~InRange(outs[b]) /\ \A c \in 1..(b - 1) : InRange(outs[c])

\* mutant: the batch's end, not its start, is compared with the limit
TestLimitReached_batch_end(k, l) == l > 0 /\ (k + 1) * batchSize >= l

\* line 197: if limit > 0 and i * self.opt.batchSize >= limit: break
TestLimitReached(k, l) == l > 0 /\ k * batchSize >= l

\* run_test(model, limit), line 194
run_test ==
    /\ pc = "idle"
    /\ \E l \in -1..MaxLimit : limit' = l /\ limit_arg' = l
    /\ entry' = "run_test"
    /\ filepaths' = <<>>
    /\ i' = 0
    /\ pc' = "test_loop"
    /\ UNCHANGED <<cfg, mode, write_error_log, log, indices, counter, all_errors,
                   processed, error_log, log_writes, obs, saved, disk, manifest>>

\* run_test's loop, the dataloader is exhausted
test_exhausted ==
    /\ pc = "test_loop"
    /\ i >= NumBatches
    /\ pc' = "test_end"
    /\ UNCHANGED <<cfg, args, valv, obs, testv>>

\* run_test's loop, lines 196-198: the batch is fetched, the limit is reached
test_break ==
    /\ pc = "test_loop"
    /\ i < NumBatches
    /\ TestLimitReached(i, limit)
    /\ fetched' = fetched + 1
    /\ pc' = "test_end"
    /\ UNCHANGED <<cfg, args, valv, model_calls, dataset_calls, exception, reports,
                   testv>>

\* run_test's loop, lines 196-211: forward, then assert, save and record every
\* sample of the batch until one fails the assertion
test_batch ==
    /\ pc = "test_loop"
    /\ i < NumBatches
    /\ ~TestLimitReached(i, limit)
    /\ fetched' = fetched + 1
    /\ model_calls' = model_calls + 1
    /\ processed' = Append(processed, DataloaderBatch(i))
    /\ reports' = IF i % ProgressEvery = 0
                  THEN Append(reports, [sink |-> "progress",
                                        samples |-> batchSize * i, of |-> N])
                  ELSE reports
    /\ \E outs \in [1..Len(DataloaderBatch(i)) -> Outputs] :
        LET batch == DataloaderBatch(i)
            bad == FirstBad(outs)
            n == IF bad = 0 THEN Len(batch) ELSE bad - 1
        IN
        /\ disk' = SaveBatch(disk, batch, outs, n)
        /\ saved' = saved \o [b \in 1..n |-> [sample |-> batch[b], out |-> outs[b]]]
        /\ filepaths' = filepaths \o [b \in 1..n |-> ResultPath(filenames[batch[b] + 1])]
        /\ IF bad = 0
           THEN /\ i' = i + 1
                /\ pc' = pc
                /\ UNCHANGED exception
           ELSE /\ i' = i
                /\ pc' = "failed"
                /\ exception' = [type |-> "AssertionError",
                                 msg |-> <<"sample", batch[bad]>>]
    /\ UNCHANGED <<cfg, args, indices, counter, all_errors, error_log, log_writes,
                   dataset_calls, manifest>>

\* run_test, lines 214-219: the manifest
test_end ==
    /\ pc = "test_end"
    /\ manifest' = [written |-> TRUE, lines |-> filepaths]
    /\ reports' = Append(reports, [sink |-> "print", samples |-> Len(filepaths), of |-> N])
    /\ pc' = "done"
    /\ UNCHANGED <<cfg, args, valv, fetched, model_calls, dataset_calls, exception,
                   filepaths, saved, disk>>

Init == InitBase /\ filenames \in PlainFilenames(N)

Next ==
    \/ run
    \/ call_run_validation
    \/ rv_enter
    \/ rv_exhausted
    \/ rv_break
    \/ rv_batch
    \/ rv_end
    \/ run_end
    \/ run_visual_validation
    \/ vv_batch
    \/ vv_end

Spec == Init /\ [][Next]_vars

\* run_test alone, over datasets whose stripped file names may coincide
InitTest ==
    /\ InitBase
    /\ filenames \in DatasetFilenames(N)
    /\ dataset_key = "test"
    /\ validation_list = <<>>

NextTest ==
    \/ run_test
    \/ test_exhausted
    \/ test_break
    \/ test_batch
    \/ test_end

SpecTest == InitTest /\ [][NextTest]_vars

\* ------------------------------------------------------------------ claims
InValidation == entry \in {"run", "run_validation"}
SelectsIndices == entry \in {"run", "run_visual_validation"}

\* the samples of the generator's batches 0 .. k-1, in traversal order
RECURSIVE FlatBatches(_)
FlatBatches(k) == IF k = 0 THEN <<>> ELSE FlatBatches(k - 1) \o GenBatch(k - 1)

AllSamples == [j \in 1..N |-> j - 1]
ErrorOf(s) == <<"mse", s>>

C4_OneErrorPerSample ==
    (InValidation /\ pc \in {"rv_loop", "rv_end", "run_end", "done"}) =>
        LET done_samples == FlatBatches(i) IN
        /\ Len(processed) = i
        /\ processed = [k \in 1..i |-> GenBatch(k - 1)]
        /\ Len(all_errors) = Len(done_samples)
        /\ \A j \in 1..Len(done_samples) : all_errors[j] = ErrorOf(done_samples[j])

C4_Witness ==
    /\ InValidation /\ pc = "done"
    /\ i >= 1 /\ counter > limit
    /\ Len(processed[1]) > 1

\* C9: run with a mode that holds "full" and neither "rand" nor "fix", and
\* limit <= 0, on a validation split: no index restriction, the limit is N, the
\* traversal is never cut short and there is one error for every sample.
C9_FullTraversal ==
    (/\ entry = "run" /\ pc \in {"rv_end", "run_end", "done"}
     /\ Contains(full, mode) /\ ~Contains(rand, mode) /\ ~Contains(fix, mode)
     /\ limit_arg <= 0) =>
        /\ limit = N
        /\ ~indices.restricted
        /\ counter = N
        /\ fetched = NumBatches
        /\ model_calls = NumBatches
        /\ Len(all_errors) = N
        /\ \A j \in 1..N : all_errors[j] = ErrorOf(AllSamples[j])
        /\ pc = "done" =>
            \E k \in 1..Len(reports) :
                reports[k] = [sink |-> "print_results", samples |-> N, of |-> N]

C9_Witness ==
    /\ entry = "run" /\ pc = "done"
    /\ mode = full /\ limit_arg <= 0
    /\ N = 3 /\ batchSize = 2
    /\ Len(all_errors) = 3

\* C3: with write_error_log set, the four log arrays have N rows each, and the
\* rows written for batch i are exactly [i*batchSize, i*batchSize+batchSize),
\* which lie within [0, N), are as many as the batch has samples, and overlap
\* no other batch's rows.
C3_BatchRowRanges ==
    (InValidation /\ write_error_log /\ error_log.state # "none") =>
        /\ Len(error_log.error) = N
        /\ Len(error_log.user) = N
        /\ Len(error_log.filename) = N
        /\ Len(error_log.visualisation) = N
        /\ \A k \in 1..Len(log_writes) :
            LET w == log_writes[k] IN
            /\ w.idx_from = w.i * batchSize
            /\ w.idx_to = w.i * batchSize + batchSize
            /\ w.rows = w.idx_from..(w.idx_to - 1)
            /\ w.rows \subseteq 0..(N - 1)
            /\ Cardinality(w.rows) = Len(w.batch)
            /\ \A j \in 1..Len(log_writes) : j # k => w.rows \cap log_writes[j].rows = {}

\* C5: the mode string is matched by substring, "rand" first, then "fix", then
\* "full": with "rand" the dataset is asked for `limit` random indices; with
\* "fix" and no "rand" the indices are the first `limit` entries of the fixed
\* validation list; with "full" alone there is no restriction.
C5_ModePriority ==
    (SelectsIndices /\ pc # "idle") =>
        /\ Contains(rand, mode) =>
            /\ dataset_calls = << <<"get_random_indices", limit>> >>
            /\ indices.restricted
            /\ Len(indices.list) = limit
            /\ Range(indices.list) \subseteq 0..(N - 1)
            /\ exception.msg # <<"Invalid mode: ">> \o mode
        /\ (Contains(fix, mode) /\ ~Contains(rand, mode)) =>
            /\ dataset_calls = << <<"get_validation_indices">> >>
            /\ indices.restricted
            /\ indices.list = SubSeq(validation_list, 1, Min(limit, Len(validation_list)))
        /\ (Contains(full, mode) /\ ~Contains(rand, mode) /\ ~Contains(fix, mode)) =>
            /\ dataset_calls = <<>>
            /\ ~indices.restricted

C5_Witness ==
    /\ entry = "run" /\ pc = "done"
    /\ mode = fix \o rand \o <<"o", "m">>
    /\ validation_list # <<>>
    /\ Len(indices.list) = 2
    /\ Len(all_errors) = 2

\* C6: a mode string holding none of "rand", "fix", "full" makes run and
\* run_visual_validation fail at once with a ValueError that names the mode:
\* no dataset call, no batch fetched, no model call, no log, no report.
C6_InvalidModeFailsFast ==
    (/\ SelectsIndices /\ pc # "idle"
     /\ ~Contains(rand, mode) /\ ~Contains(fix, mode) /\ ~Contains(full, mode)) =>
        /\ pc = "failed"
        /\ exception.type = "ValueError"
        /\ exception.msg = <<"Invalid mode: ">> \o mode
        /\ dataset_calls = <<>>
        /\ fetched = 0
        /\ model_calls = 0
        /\ error_log.state = "none" /\ error_log.opens = 0
        /\ log_writes = <<>>
        /\ reports = <<>>

C6_Witness ==
    /\ entry = "run" /\ pc = "failed"
    /\ mode = <<"r", "a", "n">>
    /\ write_error_log /\ is_validation
    /\ exception.type = "ValueError"

\* C8 (as stated): run with mode "rand" and 0 < limit <= N on a validation
\* split selects limit samples, returns limit errors and processes
\* limit / batchSize batches (stated for a limit that batchSize divides).
C8_BatchesByBatchSize ==
    (/\ entry = "run" /\ pc = "done"
     /\ Contains(rand, mode) /\ 0 < limit /\ limit <= N
     /\ limit % batchSize = 0) =>
        /\ Len(indices.list) = limit
        /\ Len(all_errors) = limit
        /\ Len(processed) * batchSize = limit

\* C8 (amended): ... selects limit samples, returns limit errors and processes
\* limit batches, one single-sample batch per selected index, in index order.
C8_OneBatchPerIndex ==
    (/\ entry = "run" /\ pc = "done"
     /\ Contains(rand, mode) /\ 0 < limit /\ limit <= N) =>
        /\ Len(indices.list) = limit
        /\ Len(all_errors) = limit
        /\ Len(processed) = limit
        /\ fetched = limit
        /\ \A k \in 1..limit :
            /\ processed[k] = <<indices.list[k]>>
            /\ all_errors[k] = ErrorOf(indices.list[k])

C8_Witness ==
    /\ entry = "run" /\ pc = "done"
    /\ mode = rand /\ limit_arg = 2 /\ batchSize = 2 /\ N = 3
    /\ Len(all_errors) = 2
    /\ Len(processed) = 2

\* C10: a run_validation call with write_error_log set that does not fail opens
\* the log exactly once, before the first batch is taken, writes it only while
\* it is open, and has closed it when it returns, whether the batches ran out
\* or the limit check stopped the loop; without write_error_log no log is
\* opened or written.
C10_LogOpenedOnceAndClosed ==
    /\ (InValidation /\ write_error_log) =>
        /\ pc \in {"rv_loop", "rv_end"} => (error_log.state = "open" /\ error_log.opens = 1)
        /\ pc \in {"run_end", "done"} => (error_log.state = "closed" /\ error_log.opens = 1)
        /\ fetched > 0 => error_log.opens = 1
        /\ error_log.opens = 0 => fetched = 0
        /\ \A k \in 1..Len(log_writes) : log_writes[k].log_state = "open"
    /\ ~(InValidation /\ write_error_log) =>
        /\ error_log.state = "none"
        /\ error_log.opens = 0
        /\ log_writes = <<>>

C10_Witness ==
    /\ entry = "run" /\ pc = "done"
    /\ write_error_log
    /\ counter > limit
    /\ log_writes # <<>>
    /\ error_log.state = "closed"

\* the path run_test gives sample s
PathOf(s) == ResultPath(filenames[s + 1])

PixelsOk(a) == \A k \in 1..Len(a) : 0 <= a[k] /\ a[k] <= 255

StrippedNamesDistinct ==
    \A a, b \in 1..N : a # b => StripDots(filenames[a]) # StripDots(filenames[b])

\* C2 (as stated): with limit >= N, run_test writes exactly N output files, one
\* per sample under N distinct paths, and then a manifest that lists exactly
\* those N paths in traversal order.
C2_NFilesAndManifest ==
    (entry = "run_test" /\ limit >= N /\ pc \in {"done", "failed"}) =>
        /\ pc = "done"
        /\ Cardinality(disk) = N
        /\ Cardinality(Range(filepaths)) = N
        /\ manifest.written
        /\ manifest.lines = [k \in 1..N |-> PathOf(k - 1)]

\* C2 (amended): with limit >= N, run_test stops only on a sample whose output
\* fails the range assertion; otherwise it saves exactly N arrays, one per
\* sample in traversal order, and then writes a manifest that lists the N paths
\* of those saves in that order. The N paths are distinct, and N files exist,
\* exactly when the file names without their dots are pairwise distinct.
C2_NSavesAndManifest ==
    (entry = "run_test" /\ limit >= N) =>
        /\ pc = "failed" =>
            (exception.type = "AssertionError" /\ ~manifest.written)
        /\ pc \in {"test_end", "done"} =>
            /\ fetched = NumBatches /\ model_calls = NumBatches
            /\ Len(saved) = N
            /\ \A k \in 1..N : saved[k].sample = k - 1
            /\ filepaths = [k \in 1..N |-> PathOf(k - 1)]
            /\ {f.path : f \in disk} = Range(filepaths)
            /\ (Cardinality(disk) = N) <=> StrippedNamesDistinct
        /\ pc = "done" => (manifest.written /\ manifest.lines = filepaths)

C2_Witness ==
    /\ entry = "run_test" /\ pc = "done" /\ limit >= N
    /\ N = 3 /\ batchSize = 2
    /\ Cardinality(disk) = 3
    /\ Len(manifest.lines) = 3

\* C7: every array run_test persists has all its elements in [0, 255], and a
\* sample whose normalized output has an element outside [0, 255] makes the run
\* raise before anything is written for that sample: it is not saved, has no
\* entry in filepaths, and no manifest is written.
C7_RangeAssertedBeforeSave ==
    (entry = "run_test") =>
        /\ \A f \in disk : PixelsOk(f.data)
        /\ \A k \in 1..Len(saved) : PixelsOk(saved[k].out)
        /\ Len(filepaths) = Len(saved)
        /\ \A k \in 1..Len(saved) : filepaths[k] = PathOf(saved[k].sample)
        /\ {f.path : f \in disk} = Range(filepaths)
        /\ pc = "failed" =>
            /\ exception.type = "AssertionError"
            /\ \A k \in 1..Len(saved) : saved[k].sample # exception.msg[2]
            /\ Len(saved) = exception.msg[2]
            /\ ~manifest.written
        /\ manifest.written => manifest.lines = filepaths

C7_Witness ==
    /\ entry = "run_test" /\ pc = "failed"
    /\ exception.type = "AssertionError"
    /\ exception.msg[2] = 1
    /\ batchSize = 2
    /\ Len(saved) = 1
    /\ Cardinality(disk) = 1
====
